---- MODULE Spec2Model ----
(***************************************************************************)
(* Recipe optimizer: availability parsing, catalog loading, constraint     *)
(* filtering, cheapest-substitute selection and request validation.        *)
(*                                                                         *)
(* Text is modelled as a sequence of tokens, each token an indivisible     *)
(* run of characters ("ALL", " except", "Only", " ", ",", a country name,  *)
(* a numeral, "$").  Python's str methods are modelled on such sequences.  *)
(* Amounts are in hundredths (0.30 is 30), prices in cents, costs in       *)
(* price*amount units.  Catalog rows are dict objects: a row is identified *)
(* by its position in the heap `rows`, and filtered lists and recipes hold *)
(* references (positions), as the Python lists hold the same dict objects. *)
(***************************************************************************)
EXTENDS Integers, Sequences, FiniteSets, TLC

VARIABLES
    \* availability parser exercised on its own
    avText, avCountry, avRule, avResult, avPc,
    \* RecipeOptimizer over one loaded catalog
    rows,        \* heap of row dicts: self.data, in catalog order
    catalog0,    \* the rows as they were right after loading
    pc,          \* per request: "idle", "filtered", "done", "failed"
    melting, country, targets,   \* per request: the inputs of its run
    filtered,    \* per request: filtered_data, references into rows
    recipe,      \* per request: the returned recipe, references into rows
    result,      \* per request: what the run returned, as read at return
    first,       \* per request: what its first run returned
    run,         \* per request: number of the current run
    \* the /optimize-recipe endpoint serving one request
    hPc,         \* "received", "rejected", "validated", "loaded", "filtered", "ended"
    hRequest,    \* the request body
    hSource,     \* the CSV file as load_data finds it
    hData,       \* data: the rows load_data returned
    hFiltered,   \* filtered_data, references into hData
    hOutcome     \* how the call ended

avVars == <<avText, avCountry, avRule, avResult, avPc>>
optVars == <<rows, catalog0, pc, melting, country, targets, filtered, recipe,
             result, first, run>>
httpVars == <<hPc, hRequest, hSource, hData, hFiltered, hOutcome>>
vars == <<avVars, optVars, httpVars>>

(*************************** bounds ***************************************)
MaxTextLen == 4
MaxRows == 2
MaxTargets == 2

(*************************** text helpers *********************************)
SeqsUpTo(S, n) == UNION {[1..k -> S] : k \in 0..n}

RECURSIVE lstrip(_)
lstrip(s) == IF s # <<>> /\ Head(s) = " " THEN lstrip(Tail(s)) ELSE s

RECURSIVE rstrip(_)
rstrip(s) == IF s # <<>> /\ s[Len(s)] = " " THEN rstrip(SubSeq(s, 1, Len(s) - 1)) ELSE s

strip(s) == rstrip(lstrip(s))

startswith(s, prefix) ==
    Len(s) >= Len(prefix) /\ SubSeq(s, 1, Len(prefix)) = prefix

RECURSIVE replace(_, _, _)
replace(s, old, new) ==
    IF Len(s) < Len(old) THEN s
    ELSE IF startswith(s, old)
         THEN new \o replace(SubSeq(s, Len(old) + 1, Len(s)), old, new)
         ELSE <<Head(s)>> \o replace(Tail(s), old, new)

RECURSIVE split(_, _)
split(s, sep) ==
    IF \A i \in 1..Len(s) : s[i] # sep THEN <<s>>
    ELSE LET i == CHOOSE k \in 1..Len(s) :
                      s[k] = sep /\ \A j \in 1..(k - 1) : s[j] # sep
         IN <<SubSeq(s, 1, i - 1)>> \o split(SubSeq(s, i + 1, Len(s)), sep)

stripEach(parts) == [i \in 1..Len(parts) |-> strip(parts[i])]

(*************************** AvailabilityParser ***************************)
KwAll == <<"ALL">>
KwAllExcept == <<"ALL", " except">>
KwOnly == <<"Only">>

ValueError(text) == [type |-> "ValueError", countries |-> <<>>, detail |-> text]

parse_availability(availability_text) ==
    IF strip(availability_text) = KwAll
    THEN [type |-> "exclude", countries |-> <<>>, detail |-> <<>>]
    ELSE IF startswith(availability_text, KwAllExcept)
    THEN [type |-> "exclude",
          countries |-> stripEach(split(replace(availability_text, KwAllExcept, <<>>), ",")),
          detail |-> <<>>]
    ELSE IF startswith(availability_text, KwOnly)
    THEN [type |-> "include",
          countries |-> stripEach(split(replace(availability_text, KwOnly, <<>>), ",")),
          detail |-> <<>>]
    ELSE ValueError(availability_text)

InList(x, list) == \E i \in 1..Len(list) : list[i] = x

is_available_in_country(availability, ctry) ==
    IF availability.type = "exclude" THEN ~InList(ctry, availability.countries)
    ELSE IF availability.type = "include" THEN InList(ctry, availability.countries)
    ELSE FALSE

NoRule == [type |-> "none", countries |-> <<>>, detail |-> <<>>]

AvIdle ==
    /\ avText = <<>>
    /\ avCountry = <<>>
    /\ avRule = NoRule
    /\ avResult = "none"
    /\ avPc = "off"

Outcome(kind, status) == [kind |-> kind, status |-> status, rows |-> <<>>, total |-> 0]
NoSource == [exists |-> FALSE, rows |-> <<>>]
NoRequest == [components |-> <<>>, melting_point |-> 0, country |-> <<>>]

HttpIdle ==
    /\ hPc = "off"
    /\ hRequest = NoRequest
    /\ hSource = NoSource
    /\ hData = <<>>
    /\ hFiltered = <<>>
    /\ hOutcome = Outcome("none", 0)

(*************************** RecipeOptimizer ******************************)
Requests == {1, 2}
Classes == {"54", "231"}
Prices == {150, 200}
Amounts == {30, 40, 70, 100}
RequestCountries == {<<"China">>, <<"Japan">>}
RequestMeltingPoints == {200}

TextAll == <<"ALL">>
TextAllExceptChina == <<"ALL", " except", " ", "China">>
TextOnlyChinaJapan == <<"Only", " ", "China", ",", " ", "Japan">>
TextMalformed == <<"Japan">>

\* melting point and availability text of a catalog row
FilterKinds ==
    { [mp |-> 200, av |-> TextAll], [mp |-> 100, av |-> TextAll],
      [mp |-> 300, av |-> TextAllExceptChina], [mp |-> 300, av |-> TextOnlyChinaJapan] }

RowShapes ==
    { [si |-> c, price |-> p, mp |-> k.mp, av |-> k.av] :
        c \in Classes, p \in Prices, k \in FilterKinds }
    \cup { [si |-> "54", price |-> 150, mp |-> 300, av |-> TextMalformed] }

\* a row dict as load_data leaves it: no 'Amount' and no 'Cost' key yet
Row(id, shape) ==
    [RawMaterialID |-> id, SimilarityIndex |-> shape.si, Price |-> shape.price,
     MeltingPoint |-> shape.mp, Availability |-> shape.av,
     hasAmount |-> FALSE, Amount |-> 0, Cost |-> 0]

Catalog(shapes) == [i \in 1..Len(shapes) |-> Row(i, shapes[i])]

Component(similarity_index, amount) ==
    [similarity_index |-> similarity_index, amount |-> amount]

RECURSIVE SumAmounts(_)
SumAmounts(components) ==
    IF components = <<>> THEN 0
    ELSE Head(components).amount + SumAmounts(Tail(components))

\* target lists of validated requests
TargetLists ==
    { t \in SeqsUpTo({Component(c, a) : c \in Classes, a \in Amounts}, MaxTargets) :
        SumAmounts(t) \in 99..101 }

NoResult == [kind |-> "none", detail |-> <<>>, rows |-> <<>>, total |-> 0]

RECURSIVE filter_loop(_, _, _, _, _)
filter_loop(data, i, melting_point, ctry, filtered_data) ==
    IF i > Len(data)
    THEN [error |-> "none", detail |-> <<>>, rows |-> filtered_data]
    ELSE LET row == data[i]
             availability == parse_availability(row.Availability)
         IN IF availability.type = "ValueError"
            THEN [error |-> "ValueError", detail |-> row.Availability, rows |-> <<>>]
            ELSE IF row.MeltingPoint >= melting_point
                    /\ is_available_in_country(availability, ctry)
                 THEN filter_loop(data, i + 1, melting_point, ctry, Append(filtered_data, i))
                 ELSE filter_loop(data, i + 1, melting_point, ctry, filtered_data)

\* variant: the melting point compared with > instead of >=
filter_data_strict(data, melting_point, ctry) ==
    filter_loop(data, 1, melting_point + 1, ctry, <<>>)

filter_data(data, melting_point, ctry) == filter_loop(data, 1, melting_point, ctry, <<>>)

\* Python's min(alternatives, key=Price): the first of the smallest
RECURSIVE min_scan(_, _, _, _)
min_scan(data, alternatives, j, best) ==
    IF j > Len(alternatives) THEN best
    ELSE IF data[alternatives[j]].Price < data[best].Price
         THEN min_scan(data, alternatives, j + 1, alternatives[j])
         ELSE min_scan(data, alternatives, j + 1, best)

\* variant: the last of the smallest instead of the first
RECURSIVE min_scan_last(_, _, _, _)
min_scan_last(data, alternatives, j, best) ==
    IF j > Len(alternatives) THEN best
    ELSE IF data[alternatives[j]].Price <= data[best].Price
         THEN min_scan_last(data, alternatives, j + 1, alternatives[j])
         ELSE min_scan_last(data, alternatives, j + 1, best)

min_by_price_last(data, alternatives) ==
    min_scan_last(data, alternatives, 2, alternatives[1])

min_by_price(data, alternatives) == min_scan(data, alternatives, 2, alternatives[1])

Indices(data) == [i \in 1..Len(data) |-> i]

RECURSIVE select_loop(_, _, _, _)
select_loop(data, target_components, k, rcp) ==
    IF k > Len(target_components)
    THEN [error |-> "none", detail |-> <<>>, recipe |-> rcp, data |-> data]
    ELSE LET target == target_components[k]
             similarity_index == target.similarity_index
             IsAlt(i) == data[i].SimilarityIndex = similarity_index
             alternatives == SelectSeq(Indices(data), IsAlt)
         IN IF alternatives = <<>>
            THEN [error |-> "HTTPException404", detail |-> <<similarity_index>>,
                  recipe |-> <<>>, data |-> data]
            ELSE LET cheapest == min_by_price(data, alternatives)
                     written == [data EXCEPT
                                   ![cheapest].hasAmount = TRUE,
                                   ![cheapest].Amount = target.amount,
                                   ![cheapest].Cost = data[cheapest].Price * target.amount]
                 IN select_loop(written, target_components, k + 1, Append(rcp, cheapest))

\* self.data is the whole catalog: the method takes no filtered list
find_alternative_components(data, target_components) ==
    select_loop(data, target_components, 1, <<>>)

RECURSIVE calculate_total_cost(_, _)
calculate_total_cost(data, rcp) ==
    IF rcp = <<>> THEN 0
    ELSE data[Head(rcp)].Cost + calculate_total_cost(data, Tail(rcp))

\* the rows of a recipe as a caller reads them through the references
Read(data, rcp) ==
    [k \in 1..Len(rcp) |->
        [RawMaterialID |-> data[rcp[k]].RawMaterialID,
         SimilarityIndex |-> data[rcp[k]].SimilarityIndex,
         Amount |-> data[rcp[k]].Amount,
         Price |-> data[rcp[k]].Price,
         Cost |-> data[rcp[k]].Cost]]

OptIdle ==
    /\ rows = <<>>
    /\ catalog0 = <<>>
    /\ pc = [r \in Requests |-> "off"]
    /\ melting = [r \in Requests |-> 0]
    /\ country = [r \in Requests |-> <<>>]
    /\ targets = [r \in Requests |-> <<>>]
    /\ filtered = [r \in Requests |-> <<>>]
    /\ recipe = [r \in Requests |-> <<>>]
    /\ result = [r \in Requests |-> NoResult]
    /\ first = [r \in Requests |-> NoResult]
    /\ run = [r \in Requests |-> 1]

\* RecipeOptimizer(data): the optimizer holds the loaded list itself
OptInit ==
    /\ \E shapes \in SeqsUpTo(RowShapes, MaxRows) : rows = Catalog(shapes)
    /\ catalog0 = rows
    /\ pc = [r \in Requests |-> "idle"]
    /\ melting = [r \in Requests |-> 0]
    /\ country = [r \in Requests |-> <<>>]
    /\ targets = [r \in Requests |-> <<>>]
    /\ filtered = [r \in Requests |-> <<>>]
    /\ recipe = [r \in Requests |-> <<>>]
    /\ result = [r \in Requests |-> NoResult]
    /\ first = [r \in Requests |-> NoResult]
    /\ run = [r \in Requests |-> 1]

\* optimizer.filter_data(melting_point, country); a rerun repeats its inputs
Filter(r, m, c) ==
    /\ pc[r] = "idle"
    /\ run[r] > 1 => m = melting[r] /\ c = country[r]
    /\ LET out == filter_data(rows, m, c)
       IN IF out.error = "none"
          THEN /\ filtered' = [filtered EXCEPT ![r] = out.rows]
               /\ pc' = [pc EXCEPT ![r] = "filtered"]
               /\ result' = [result EXCEPT ![r] = NoResult]
          ELSE /\ filtered' = [filtered EXCEPT ![r] = <<>>]
               /\ pc' = [pc EXCEPT ![r] = "failed"]
               /\ result' = [result EXCEPT ![r] =
                     [kind |-> "ValueError", detail |-> out.detail,
                      rows |-> <<>>, total |-> 0]]
    /\ melting' = [melting EXCEPT ![r] = m]
    /\ country' = [country EXCEPT ![r] = c]
    /\ recipe' = [recipe EXCEPT ![r] = <<>>]
    /\ UNCHANGED <<rows, catalog0, targets, first, run>>
    /\ UNCHANGED <<avVars, httpVars>>

\* optimizer.find_alternative_components(components), then calculate_total_cost
Select(r, t) ==
    /\ pc[r] = "filtered"
    /\ run[r] > 1 => t = targets[r]
    /\ LET out == find_alternative_components(rows, t)
       IN /\ rows' = out.data
          /\ IF out.error = "none"
             THEN /\ recipe' = [recipe EXCEPT ![r] = out.recipe]
                  /\ pc' = [pc EXCEPT ![r] = "done"]
                  /\ result' = [result EXCEPT ![r] =
                        [kind |-> "recipe", detail |-> <<>>,
                         rows |-> Read(out.data, out.recipe),
                         total |-> calculate_total_cost(out.data, out.recipe)]]
             ELSE /\ recipe' = [recipe EXCEPT ![r] = <<>>]
                  /\ pc' = [pc EXCEPT ![r] = "failed"]
                  /\ result' = [result EXCEPT ![r] =
                        [kind |-> "NoAlternativeError", detail |-> out.detail,
                         rows |-> <<>>, total |-> 0]]
    /\ targets' = [targets EXCEPT ![r] = t]
    /\ UNCHANGED <<catalog0, melting, country, filtered, first, run>>
    /\ UNCHANGED <<avVars, httpVars>>

\* the same request is served a second time over the same optimizer
Rerun(r) ==
    /\ pc[r] \in {"done", "failed"}
    /\ run[r] = 1
    /\ run' = [run EXCEPT ![r] = run[r] + 1]
    /\ first' = [first EXCEPT ![r] = result[r]]
    /\ pc' = [pc EXCEPT ![r] = "idle"]
    /\ UNCHANGED <<rows, catalog0, melting, country, targets, filtered, recipe, result>>
    /\ UNCHANGED <<avVars, httpVars>>

Next ==
    \/ \E m \in RequestMeltingPoints, c \in RequestCountries : Filter(1, m, c)
    \/ \E t \in TargetLists : Select(1, t)
    \/ Rerun(1)

Init == OptInit /\ AvIdle /\ HttpIdle

Spec == Init /\ [][Next]_vars

SharedNext ==
    \E r \in Requests :
        \/ \E m \in RequestMeltingPoints, c \in RequestCountries : Filter(r, m, c)
        \/ \E t \in TargetLists : Select(r, t)

SpecShared == Init /\ [][SharedNext]_vars

(*************************** optimizer properties *************************)
Refs(list) == {list[k] : k \in 1..Len(list)}

Keeps(row, m, c) ==
    /\ row.MeltingPoint >= m
    /\ is_available_in_country(parse_availability(row.Availability), c)

AllTextsParse(data) ==
    \A i \in 1..Len(data) : parse_availability(data[i].Availability).type # "ValueError"

C1_CheapestOverFiltered ==
    \A r \in Requests :
        pc[r] = "done" =>
            \A k \in 1..Len(recipe[r]) :
                LET i == recipe[r][k]
                IN /\ i \in Refs(filtered[r])
                   /\ rows[i].SimilarityIndex = targets[r][k].similarity_index
                   /\ \A j \in Refs(filtered[r]) :
                         rows[j].SimilarityIndex = targets[r][k].similarity_index
                            => rows[i].Price <= rows[j].Price

MissingTargets(r) ==
    { k \in 1..Len(targets[r]) :
        \A j \in Refs(filtered[r]) :
            rows[j].SimilarityIndex # targets[r][k].similarity_index }

(* C2: when a target's class has no row in the filtered catalog, the run    *)
(* fails with NoAlternativeError naming that class and returns no recipe.   *)
C2_NoAlternativeFails ==
    \A r \in Requests :
        (pc[r] \in {"done", "failed"} /\ result[r].kind # "ValueError"
            /\ MissingTargets(r) # {}) =>
                /\ result[r].kind = "NoAlternativeError"
                /\ \E k \in MissingTargets(r) :
                      result[r].detail = <<targets[r][k].similarity_index>>
                /\ result[r].rows = <<>>
                /\ recipe[r] = <<>>

(* C4: a successful selection returns one row per target, row i carrying    *)
(* target i's class and fraction and cost = price * target i's fraction.    *)
C4_RowsMirrorTargets ==
    \A r \in Requests :
        pc[r] = "done" =>
            /\ Len(result[r].rows) = Len(targets[r])
            /\ \A k \in 1..Len(targets[r]) :
                  /\ result[r].rows[k].SimilarityIndex = targets[r][k].similarity_index
                  /\ result[r].rows[k].Amount = targets[r][k].amount
                  /\ result[r].rows[k].Cost
                        = result[r].rows[k].Price * targets[r][k].amount

(* C5: filter and select never write to the catalog: every row keeps the    *)
(* fields and values it had right after loading.                            *)
C5_CatalogUnchanged == rows = catalog0

\* what a request returns when it runs alone on a fresh copy of the catalog
Alone(m, c, t) ==
    LET f == filter_data(catalog0, m, c)
        s == find_alternative_components(catalog0, t)
    IN IF f.error # "none"
       THEN [kind |-> "ValueError", detail |-> f.detail, rows |-> <<>>, total |-> 0]
       ELSE IF s.error # "none"
       THEN [kind |-> "NoAlternativeError", detail |-> s.detail, rows |-> <<>>, total |-> 0]
       ELSE [kind |-> "recipe", detail |-> <<>>, rows |-> Read(s.data, s.recipe),
             total |-> calculate_total_cost(s.data, s.recipe)]

(* C6: over a shared catalog each request returns what it would return      *)
(* alone on a fresh copy, and a returned recipe is not altered afterwards   *)
(* by steps of the other request.                                           *)
C6_NoInterference ==
    \A r \in Requests :
        /\ pc[r] = "done" =>
              /\ result[r] = Alone(melting[r], country[r], targets[r])
              /\ Read(rows, recipe[r]) = result[r].rows
              /\ calculate_total_cost(rows, recipe[r]) = result[r].total
        /\ (pc[r] = "failed" /\ result[r].kind = "NoAlternativeError") =>
              result[r] = Alone(melting[r], country[r], targets[r])

\* the rows the selector collects for a class: the catalog rows of that class
Candidates(si) == { i \in 1..Len(rows) : rows[i].SimilarityIndex = si }
MinPrice(si) ==
    CHOOSE p \in {rows[i].Price : i \in Candidates(si)} :
        \A i \in Candidates(si) : p <= rows[i].Price
FirstCheapest(si) ==
    CHOOSE i \in Candidates(si) :
        /\ rows[i].Price = MinPrice(si)
        /\ \A j \in Candidates(si) : rows[j].Price = MinPrice(si) => i <= j

(* C10: among the rows the selector collects for a target's class, the      *)
(* one chosen is the first in catalog order of those with the minimum       *)
(* price, and a run repeated with the same inputs on the same catalog       *)
(* object returns the same recipe and total (or the same failure).          *)
C10_DeterministicTieBreak ==
    \A r \in Requests :
        /\ pc[r] = "done" =>
              \A k \in 1..Len(recipe[r]) :
                  recipe[r][k] = FirstCheapest(targets[r][k].similarity_index)
        /\ (run[r] > 1 /\ pc[r] \in {"done", "failed"}) => result[r] = first[r]

C10_Witness ==
    /\ run[1] = 2
    /\ pc[1] = "done"
    /\ Len(rows) = 2
    /\ rows[1].SimilarityIndex = rows[2].SimilarityIndex
    /\ rows[1].Price = rows[2].Price
    /\ recipe[1] = <<1, 1>>
    /\ targets[1][1].amount # targets[1][2].amount

(*************************** schema, loader, endpoint **********************)
AmountInputs == {0, 29, 30, 40, 70, 72, 100, 101}
MeltingPointInputs == {0, 200}

\* Component.amount: Field(gt=0, le=1) and the validator of the same range
validate_amount(value) == ~(value <= 0 \/ value > 100)

\* variant: the total checked from below only
validate_total_amount_open(components) == 99 <= SumAmounts(components)

\* RecipeRequest.components: the total must lie in [0.99, 1.01]
validate_total_amount(components) ==
    LET total_amount == SumAmounts(components)
    IN 99 <= total_amount /\ total_amount <= 101

\* pydantic validation of the request body
RecipeRequest(request) ==
    /\ \A k \in 1..Len(request.components) : validate_amount(request.components[k].amount)
    /\ validate_total_amount(request.components)
    /\ request.melting_point > 0

NumeralValue(token) ==
    CASE token = "100" -> 100
      [] token = "150" -> 150
      [] token = "200" -> 200
      [] token = "300" -> 300
      [] OTHER -> 0
Numerals == {"100", "150", "200", "300"}

\* float(text): surrounding whitespace is ignored, the rest must be a number
float(text) ==
    LET t == strip(text)
    IN IF Len(t) = 1 /\ t[1] \in Numerals
       THEN [ok |-> TRUE, value |-> NumeralValue(t[1])]
       ELSE [ok |-> FALSE, value |-> 0]

PriceDollar == <<"$", "150">>
PricePadded == <<" ", "$", "200", " ">>
PriceWord == <<"abc">>
MeltingWord == <<"abc">>

RawShapes ==
    { [si |-> "54", price |-> PriceDollar, mp |-> <<"200">>, av |-> TextAll],
      [si |-> "231", price |-> PricePadded, mp |-> <<"300">>, av |-> TextOnlyChinaJapan],
      [si |-> "54", price |-> PriceDollar, mp |-> <<"100">>, av |-> TextAll],
      [si |-> "54", price |-> PriceWord, mp |-> <<"200">>, av |-> TextAll],
      [si |-> "54", price |-> PriceDollar, mp |-> MeltingWord, av |-> TextAll],
      [si |-> "231", price |-> PriceDollar, mp |-> <<"200">>, av |-> TextMalformed] }

Sources ==
    { [exists |-> FALSE, rows |-> <<>>] }
    \cup { [exists |-> TRUE, rows |-> raw] : raw \in SeqsUpTo(RawShapes, MaxRows) }

RECURSIVE load_loop(_, _, _)
load_loop(raw, i, data) ==
    IF i > Len(raw) THEN [error |-> "none", data |-> data]
    ELSE LET price == float(strip(replace(raw[i].price, <<"$">>, <<>>)))
             melting_point == float(raw[i].mp)
         IN IF ~price.ok \/ ~melting_point.ok
            THEN [error |-> "ValueError", data |-> <<>>]
            ELSE load_loop(raw, i + 1,
                     Append(data, Row(i, [si |-> raw[i].si, price |-> price.value,
                                          mp |-> melting_point.value, av |-> raw[i].av])))

load_data(source) ==
    IF ~source.exists THEN [error |-> "FileNotFoundError", data |-> <<>>]
    ELSE load_loop(source.rows, 1, <<>>)

\* positional parameters of RecipeOptimizer.find_alternative_components after self
FindAlternativeParams == 1

HttpInit ==
    /\ hPc = "received"
    /\ hRequest \in
          [components : SeqsUpTo({Component(c, a) : c \in Classes, a \in AmountInputs},
                                 MaxTargets),
           melting_point : MeltingPointInputs,
           country : {<<"China">>}]
    /\ hSource = NoSource
    /\ hData = <<>>
    /\ hFiltered = <<>>
    /\ hOutcome = Outcome("none", 0)

\* FastAPI builds the RecipeRequest before optimize_recipe is entered
Validate ==
    /\ hPc = "received"
    /\ IF RecipeRequest(hRequest)
       THEN hPc' = "validated" /\ hOutcome' = hOutcome
       ELSE hPc' = "rejected" /\ hOutcome' = Outcome("ValidationError", 422)
    /\ UNCHANGED <<hRequest, hSource, hData, hFiltered>>
    /\ UNCHANGED <<avVars, optVars>>

\* main.py 18-23: DataLoader.load_data(file_path)
Load(source) ==
    /\ hPc = "validated"
    /\ hSource' = source
    /\ LET out == load_data(source)
       IN IF out.error = "FileNotFoundError"
          THEN hPc' = "ended" /\ hData' = <<>> /\ hOutcome' = Outcome("NotFoundError", 404)
          ELSE IF out.error = "ValueError"
          THEN hPc' = "ended" /\ hData' = <<>> /\ hOutcome' = Outcome("FormatError", 400)
          ELSE hPc' = "loaded" /\ hData' = out.data /\ hOutcome' = hOutcome
    /\ UNCHANGED <<hRequest, hFiltered>>
    /\ UNCHANGED <<avVars, optVars>>

\* main.py 26-32: optimizer.filter_data(request.melting_point, request.country)
HttpFilter ==
    /\ hPc = "loaded"
    /\ LET out == filter_data(hData, hRequest.melting_point, hRequest.country)
       IN IF out.error = "none"
          THEN hPc' = "filtered" /\ hFiltered' = out.rows /\ hOutcome' = hOutcome
          ELSE hPc' = "ended" /\ hFiltered' = <<>> /\ hOutcome' = Outcome("ParseError", 400)
    /\ UNCHANGED <<hRequest, hSource, hData>>
    /\ UNCHANGED <<avVars, optVars>>

\* main.py 35-56: optimizer.find_alternative_components(filtered_data,
\* request.components), the total and the response
HttpSelect ==
    /\ hPc = "filtered"
    /\ hPc' = "ended"
    /\ LET args == <<hFiltered, hRequest.components>>
       IN IF Len(args) # FindAlternativeParams
          THEN hOutcome' = Outcome("TypeError", 500) /\ hData' = hData
          ELSE LET out == find_alternative_components(hData, args[1])
               IN /\ hData' = out.data
                  /\ hOutcome' =
                        IF out.error = "none"
                        THEN [kind |-> "recipe", status |-> 200,
                              rows |-> Read(out.data, out.recipe),
                              total |-> calculate_total_cost(out.data, out.recipe)]
                        ELSE Outcome("NoAlternativeError", 404)
    /\ UNCHANGED <<hRequest, hSource, hFiltered>>
    /\ UNCHANGED <<avVars, optVars>>

HttpNext ==
    \/ Validate
    \/ \E source \in Sources : Load(source)
    \/ HttpFilter
    \/ HttpSelect

InitHttp == HttpInit /\ AvIdle /\ OptIdle

SpecHttp == InitHttp /\ [][HttpNext]_vars

FractionsOk(components) ==
    /\ \A k \in 1..Len(components) :
          0 < components[k].amount /\ components[k].amount <= 100
    /\ SumAmounts(components) - 100 <= 1
    /\ 100 - SumAmounts(components) <= 1

(* C8: a request is accepted only if every fraction is in (0, 1] and the    *)
(* fractions sum to within 0.01 of 1; any other request, the empty one      *)
(* included, is rejected at validation and never reaches the selector.      *)
C8_FractionInvariant ==
    /\ hPc \in {"validated", "loaded", "filtered", "ended"} => FractionsOk(hRequest.components)
    /\ (hPc \notin {"off", "received"} /\ ~FractionsOk(hRequest.components)) =>
          hPc = "rejected" /\ hOutcome.kind = "ValidationError"

C8_Witness ==
    /\ hPc = "ended"
    /\ hOutcome.kind = "TypeError"
    /\ Len(hRequest.components) = 2
    /\ SumAmounts(hRequest.components) = 101

WellFormed(source) ==
    /\ source.exists
    /\ load_data(source).error = "none"
    /\ AllTextsParse(load_data(source).data)

EveryTargetPasses(source, request) ==
    LET data == load_data(source).data
    IN \A k \in 1..Len(request.components) :
          \E i \in 1..Len(data) :
              /\ data[i].SimilarityIndex = request.components[k].similarity_index
              /\ Keeps(data[i], request.melting_point, request.country)

(* C7: a validated request ends in a recipe with its total or in one of     *)
(* NotFoundError, FormatError, ParseError, NoAlternativeError; with an      *)
(* existing well-formed source in which every target class has a row        *)
(* passing the filter it ends in a recipe.                                  *)
C7_ClosedOutcomes ==
    hPc = "ended" =>
        /\ hOutcome.kind \in {"recipe", "NotFoundError", "FormatError", "ParseError",
                              "NoAlternativeError"}
        /\ (WellFormed(hSource) /\ EveryTargetPasses(hSource, hRequest)) =>
              hOutcome.kind = "recipe"

(*************************** parser specification *************************)
TextTokens == {"ALL", " except", "Only", " ", ",", "China", "Japan"}
Texts == SeqsUpTo(TextTokens, MaxTextLen)
Countries == {<<"China">>, <<"Japan">>}
AvInit ==
    /\ avText \in Texts
    /\ avCountry \in Countries
    /\ avRule = NoRule
    /\ avResult = "none"
    /\ avPc = "text"

AvParse ==
    /\ avPc = "text"
    /\ avRule' = parse_availability(avText)
    /\ avPc' = IF avRule'.type = "ValueError" THEN "error" ELSE "parsed"
    /\ UNCHANGED <<avText, avCountry, avResult>>
    /\ UNCHANGED <<optVars, httpVars>>

AvQuery ==
    /\ avPc = "parsed"
    /\ avResult' = IF is_available_in_country(avRule, avCountry) THEN "yes" ELSE "no"
    /\ avPc' = "queried"
    /\ UNCHANGED <<avText, avCountry, avRule>>
    /\ UNCHANGED <<optVars, httpVars>>

AvNext == AvParse \/ AvQuery
InitParse == AvInit /\ OptIdle /\ HttpIdle

SpecParse == InitParse /\ [][AvNext]_vars

(* What the availability text means: "ALL", "ALL except c1, ..., cn",    *)
(* "Only c1, ..., cn", the list being the comma-split remainder after the  *)
(* keyword, each entry trimmed; anything else is a parse error.            *)
Remainder(text, prefix) == SubSeq(text, Len(prefix) + 1, Len(text))
Listed(text, prefix) ==
    LET parts == split(Remainder(text, prefix), ",")
    IN {strip(parts[i]) : i \in 1..Len(parts)}
Meaning(text, ctry) ==
    IF text = KwAll THEN "yes"
    ELSE IF startswith(text, KwAllExcept)
    THEN (IF ctry \in Listed(text, KwAllExcept) THEN "no" ELSE "yes")
    ELSE IF startswith(text, KwOnly)
    THEN (IF ctry \in Listed(text, KwOnly) THEN "yes" ELSE "no")
    ELSE "ParseError"

(* C9: parse followed by isAvailable gives the meaning of the text: ALL is  *)
(* available everywhere, "ALL except ..." everywhere but the trimmed listed *)
(* countries, "Only ..." only in them, and every other text fails with a    *)
(* ParseError naming the text.                                              *)
C9_AvailabilitySemantics ==
    /\ avPc = "error" => Meaning(avText, avCountry) = "ParseError" /\ avRule.detail = avText
    /\ avPc = "parsed" => Meaning(avText, avCountry) # "ParseError"
    /\ avPc = "queried" => avResult = Meaning(avText, avCountry)
====
